---- MODULE Spec2Model ----
(***************************************************************************)
(* The Monkey bytecode compiler and virtual machine of                     *)
(* muiscript/monkey-compiler: the VM (package vm), the REPL driver         *)
(* (package repl) and the VM test driver (runVmTests), with the compiler   *)
(* (package compiler, package code), whose source is not among the         *)
(* repository's files at hand, modelled from its specified emission rules. *)
(***************************************************************************)
EXTENDS Integers, Sequences, FiniteSets, TLC

VARIABLES
    pc,            \* position of the driver: see the actions
    linesRead,     \* REPL: number of lines scanned so far
    program,       \* the AST of the line / test case being processed
    symbolTable,   \* REPL: the persistent *compiler.SymbolTable
    replConstants, \* REPL: the `constants` variable of Start
    globals,       \* the globals array the current VM uses (REPL: persistent)
    constants,     \* vm.constants
    instructions,  \* vm.instructions, a sequence of bytes
    stack,         \* vm.stack
    sp,            \* vm.sp
    ip,            \* the loop variable of VM.Run
    compileErr,    \* the error Compile returned for this line (<<>>: nil)
    runErr,        \* the error Run returned for this line (<<>>: nil)
    out,           \* what was written to `out` while processing this line
    result,        \* the object LastPopped() returned
    lastOp,        \* history: opcode executed by the latest loop iteration
    globals0,      \* history: the globals array when the line was read
    bound          \* history: per name, the value its latest executed
                   \* OpSetGlobal stored ("unbound" record before any)

vars == <<pc, linesRead, program, symbolTable, replConstants, globals,
          constants, instructions, stack, sp, ip, compileErr, runErr, out,
          result, lastOp, globals0, bound>>

-----------------------------------------------------------------------------
(* Bounds of the model. *)

\* vm.StackSize is 2048 in the source; the model runs the same code with a
\* stack of this many slots, so that programs of a checkable size fill it.
StackSize == 4
\* The REPL session is followed for this many input lines.
MaxLines == 2
\* A line that does not parse reports between 1 and this many parser errors.
MaxParseErrors == 2

-----------------------------------------------------------------------------
(* package object: the value model.  An object is a record; `ref` is the   *)
(* identity of the allocation behind the pointer (Go compares *Boolean and *)
(* *Null interface values by pointer).  Integers are never compared by     *)
(* pointer in this program, so their ref is 0.                             *)

NoErr == <<>>

INTEGER_OBJ == "INTEGER"
BOOLEAN_OBJ == "BOOLEAN"
NULL_OBJ == "NULL"

\* a nil object.Object (an unset array slot, the result of pop at sp = 0)
nil == [type |-> "nil", ival |-> 0, bval |-> FALSE, ref |-> 0]

Integer(n) == [type |-> INTEGER_OBJ, ival |-> n, bval |-> FALSE, ref |-> 0]
Boolean(b, r) == [type |-> BOOLEAN_OBJ, ival |-> 0, bval |-> b, ref |-> r]

\* var True, False, Null: the three package-level allocations
True == Boolean(TRUE, 1)
False == Boolean(FALSE, 2)
Null == [type |-> NULL_OBJ, ival |-> 0, bval |-> FALSE, ref |-> 3]

\* the history variable `bound` holds this for a name no OpSetGlobal wrote
Unbound == [type |-> "unbound", ival |-> 0, bval |-> FALSE, ref |-> 0]

\* Go's == on two object.Object interface values of which at least one is
\* not an *Integer: same dynamic type and same pointer.
SamePointer(x, y) == x.type = y.type /\ x.ref = y.ref

-----------------------------------------------------------------------------
(* package code: opcodes and operand layout.                               *)

OpConstant == 0
OpPop == 1
OpAdd == 2
OpSub == 3
OpMul == 4
OpDiv == 5
OpTrue == 6
OpFalse == 7
OpNull == 8
OpEqual == 9
OpNotEqual == 10
OpGreaterThan == 11
OpMinus == 12
OpBang == 13
OpJump == 14
OpJumpNotTruthy == 15
OpSetGlobal == 16
OpGetGlobal == 17

operandWidth_NoJumpOperand(op) ==
    IF op \in {OpConstant, OpJumpNotTruthy, OpSetGlobal, OpGetGlobal}
    THEN 2 ELSE 0

\* Bytes of operand that follow the opcode byte: the five opcodes whose
\* handler in VM.Run reads a uint16 at ip+1.
operandWidth(op) ==
    IF op \in {OpConstant, OpJump, OpJumpNotTruthy, OpSetGlobal, OpGetGlobal}
    THEN 2 ELSE 0

\* code.Make for the opcodes of this instruction set (at most one operand),
\* the operand big-endian.
Make(op, operand) ==
    IF operandWidth(op) = 2
    THEN <<op, (operand \div 256) % 256, operand % 256>>
    ELSE <<op>>

\* code.ReadUint16(ins[offset:]), offset counted from 0; -1 stands for the
\* panic of reading past the end of the slice.
ReadUint16(ins, offset) ==
    IF offset + 2 > Len(ins) THEN -1
    ELSE ins[offset + 1] * 256 + ins[offset + 2]

-----------------------------------------------------------------------------
(* package vm.  A machine is the record of the VM struct's fields plus the *)
(* outcome of the handler being executed: err (the error it returns) and   *)
(* panicked (a Go run-time panic: nil dereference, index out of range,     *)
(* integer division by zero).                                              *)

\* The globals array has GlobalsSize (65536) slots, all nil until written, so
\* every uint16 index is in range; the model keeps the written slots only.
GetSlot(g, i) == IF i \in DOMAIN g THEN g[i] ELSE nil
SetSlot(g, i, v) == [j \in (DOMAIN g) \cup {i} |-> IF j = i THEN v ELSE g[j]]
NoGlobals == [i \in {} |-> nil]

\* make([]object.Object, StackSize)
NewStack == [i \in 1..StackSize |-> nil]

\* func New
New(byteCode) ==
    [constants |-> byteCode.constants, instructions |-> byteCode.instructions,
     globals |-> NoGlobals, stack |-> NewStack, sp |-> 0,
     err |-> NoErr, panicked |-> FALSE]

NewWithGlobals_Fresh(byteCode, g) == New(byteCode)

\* func NewWithGlobals
NewWithGlobals(byteCode, g) == [New(byteCode) EXCEPT !.globals = g]

Fail(m, e) == [m EXCEPT !.err = e]
Panic(m) == [m EXCEPT !.panicked = TRUE]

push_OffByOne(m, o) ==
    IF m.sp > StackSize THEN Fail(m, <<"stack overflow">>)
    ELSE [m EXCEPT !.stack = [i \in DOMAIN m.stack \cup {m.sp + 1} |->
                                 IF i = m.sp + 1 THEN o ELSE m.stack[i]],
                   !.sp = m.sp + 1]

\* func (vm *VM) push; Go's stack[sp] is stack[sp + 1] here
push(m, o) ==
    IF m.sp >= StackSize THEN Fail(m, <<"stack overflow">>)
    ELSE [m EXCEPT !.stack[m.sp + 1] = o, !.sp = m.sp + 1]

pop_NoDecrement(m) == m

\* func (vm *VM) pop: the machine after the call ...
pop(m) == IF m.sp = 0 THEN m ELSE [m EXCEPT !.sp = m.sp - 1]
\* ... and the object it returns
popped(m) == IF m.sp = 0 THEN nil ELSE m.stack[m.sp]

\* A pointer no live object has: what &object.Boolean{...} evaluates to.
\* Live are the objects the stack array and the globals array refer to.
NewRef(m) ==
    LET used == {m.stack[i].ref : i \in DOMAIN m.stack}
                \cup {m.globals[i].ref : i \in DOMAIN m.globals}
    IN  CHOOSE r \in 4..(5 + Cardinality(used)) :
            r \notin used /\ \A q \in 4..(r - 1) : q \in used

isTruthy_ZeroIsFalsy(obj) ==
    IF obj.type = BOOLEAN_OBJ THEN obj.bval
    ELSE IF obj.type = NULL_OBJ THEN FALSE
    ELSE obj.ival # 0

\* func isTruthy: a type switch; a nil interface takes the default branch
isTruthy(obj) ==
    IF obj.type = BOOLEAN_OBJ THEN obj.bval
    ELSE IF obj.type = NULL_OBJ THEN FALSE
    ELSE TRUE

\* func (vm *VM) executeBangOperator: a switch on the operand's pointer
executeBangOperator(m) ==
    LET operand == popped(m)
        m1 == pop(m)
    IN  IF SamePointer(operand, True) THEN push(m1, False)
        ELSE IF SamePointer(operand, False) \/ SamePointer(operand, Null)
             THEN push(m1, True)
        ELSE push(m1, False)

\* func (vm *VM) executeMinusOperator
executeMinusOperator(m) ==
    LET operand == popped(m)
        m1 == pop(m)
    IN  IF operand = nil THEN Panic(m1)
        ELSE IF operand.type # INTEGER_OBJ
             THEN Fail(m1, <<"unsupported type for negation by minus",
                             operand.type>>)
        ELSE push(m1, Integer(-operand.ival))

\* Go's integer division truncates toward zero
Abs(a) == IF a < 0 THEN -a ELSE a
GoDiv(a, b) ==
    LET q == Abs(a) \div Abs(b)
    IN  IF (a < 0) # (b < 0) THEN -q ELSE q

executeBinaryIntegerOperation_FloorDiv(m, opcode, left, right) ==
    LET l == left.ival
        r == right.ival
    IN  IF opcode = OpAdd THEN push(m, Integer(l + r))
        ELSE IF opcode = OpSub THEN push(m, Integer(l - r))
        ELSE IF opcode = OpMul THEN push(m, Integer(l * r))
        ELSE IF opcode = OpDiv
             THEN IF r = 0 THEN Panic(m)
                  ELSE push(m, Integer(IF r > 0 THEN l \div r
                                       ELSE (-l) \div (-r)))
        ELSE Fail(m, <<"unknown integer operator">>)

\* func (vm *VM) executeBinaryIntegerOperation
executeBinaryIntegerOperation(m, opcode, left, right) ==
    LET leftValue == left.ival
        rightValue == right.ival
    IN  IF opcode = OpAdd THEN push(m, Integer(leftValue + rightValue))
        ELSE IF opcode = OpSub THEN push(m, Integer(leftValue - rightValue))
        ELSE IF opcode = OpMul THEN push(m, Integer(leftValue * rightValue))
        ELSE IF opcode = OpDiv
             THEN IF rightValue = 0 THEN Panic(m)
                  ELSE push(m, Integer(GoDiv(leftValue, rightValue)))
        ELSE Fail(m, <<"unknown integer operator">>)

\* func (vm *VM) executeBinaryOperation
executeBinaryOperation(m, opcode) ==
    LET right == popped(m)
        m1 == pop(m)
        left == popped(m1)
        m2 == pop(m1)
    IN  IF right = nil \/ left = nil THEN Panic(m2)
        ELSE IF right.type = INTEGER_OBJ /\ left.type = INTEGER_OBJ
             THEN executeBinaryIntegerOperation(m2, opcode, left, right)
        ELSE Fail(m2, <<"unsupported types for binary operation",
                        left.type, right.type>>)

executeIntegerComparison_GreaterOrEqual(m, opcode, left, right) ==
    LET l == left.ival
        r == right.ival
    IN  IF opcode = OpEqual THEN push(m, Boolean(l = r, NewRef(m)))
        ELSE IF opcode = OpNotEqual THEN push(m, Boolean(l # r, NewRef(m)))
        ELSE IF opcode = OpGreaterThan THEN push(m, Boolean(l >= r, NewRef(m)))
        ELSE Fail(m, <<"unknown integer operator">>)

\* func (vm *VM) executeIntegerComparison
executeIntegerComparison(m, opcode, left, right) ==
    LET leftValue == left.ival
        rightValue == right.ival
    IN  IF opcode = OpEqual
        THEN push(m, Boolean(leftValue = rightValue, NewRef(m)))
        ELSE IF opcode = OpNotEqual
             THEN push(m, Boolean(leftValue # rightValue, NewRef(m)))
        ELSE IF opcode = OpGreaterThan
             THEN push(m, Boolean(leftValue > rightValue, NewRef(m)))
        ELSE Fail(m, <<"unknown integer operator">>)

executeComparison_ByType(m, opcode) ==
    LET right == popped(m)
        m1 == pop(m)
        left == popped(m1)
        m2 == pop(m1)
    IN  IF right = nil \/ left = nil THEN Panic(m2)
        ELSE IF right.type = INTEGER_OBJ /\ left.type = INTEGER_OBJ
             THEN executeIntegerComparison(m2, opcode, left, right)
        ELSE IF opcode = OpEqual
             THEN push(m2, Boolean(left.type = right.type, NewRef(m2)))
        ELSE IF opcode = OpNotEqual
             THEN push(m2, Boolean(left.type # right.type, NewRef(m2)))
        ELSE Fail(m2, <<"unsupported types for binary operation",
                        left.type, right.type>>)

\* func (vm *VM) executeComparison
executeComparison(m, opcode) ==
    LET right == popped(m)
        m1 == pop(m)
        left == popped(m1)
        m2 == pop(m1)
    IN  IF right = nil \/ left = nil THEN Panic(m2)
        ELSE IF right.type = INTEGER_OBJ /\ left.type = INTEGER_OBJ
             THEN executeIntegerComparison(m2, opcode, left, right)
        ELSE IF opcode = OpEqual
             THEN push(m2, Boolean(SamePointer(left, right), NewRef(m2)))
        ELSE IF opcode = OpNotEqual
             THEN push(m2, Boolean(~SamePointer(left, right), NewRef(m2)))
        ELSE Fail(m2, <<"unsupported types for binary operation",
                        left.type, right.type>>)

\* One iteration of the loop of func (vm *VM) Run, the `ip++` included: the
\* machine after the case of the switch, and the next ip.  A byte that is no
\* opcode takes no case.  When the handler returned an error or panicked the
\* loop is left and ip is not used.
RunIteration(m, i) ==
    LET opcode == m.instructions[i + 1]
        operand == ReadUint16(m.instructions, i + 1)
        at(m1, j) == [m |-> m1, ip |-> j]
    IN  IF operandWidth(opcode) = 2 /\ operand = -1 THEN at(Panic(m), i)
        ELSE CASE opcode = OpConstant ->
                IF operand >= Len(m.constants) THEN at(Panic(m), i)
                ELSE at(push(m, m.constants[operand + 1]), i + 3)
          [] opcode = OpTrue -> at(push(m, True), i + 1)
          [] opcode = OpFalse -> at(push(m, False), i + 1)
          [] opcode = OpNull -> at(push(m, Null), i + 1)
          [] opcode = OpBang -> at(executeBangOperator(m), i + 1)
          [] opcode = OpMinus -> at(executeMinusOperator(m), i + 1)
          [] opcode \in {OpAdd, OpSub, OpMul, OpDiv} ->
                at(executeBinaryOperation(m, opcode), i + 1)
          [] opcode \in {OpEqual, OpNotEqual, OpGreaterThan} ->
                at(executeComparison(m, opcode), i + 1)
          [] opcode = OpPop -> at(pop(m), i + 1)
          [] opcode = OpJump -> at(m, operand)
          [] opcode = OpJumpNotTruthy ->
                at(pop(m), IF ~isTruthy(popped(m)) THEN operand ELSE i + 3)
          [] opcode = OpSetGlobal ->
                at([pop(m) EXCEPT !.globals = SetSlot(m.globals, operand,
                                                      popped(m))], i + 3)
          [] opcode = OpGetGlobal ->
                at(push(m, GetSlot(m.globals, operand)), i + 3)
          [] OTHER -> at(m, i + 1)

\* func (vm *VM) LastPopped: vm.stack[vm.sp]; reading index StackSize panics
LastPoppedPanics(m) == m.sp >= StackSize
LastPopped(m) == m.stack[m.sp + 1]

-----------------------------------------------------------------------------
(* package ast: the nodes the compiler consumes.  A program and a block    *)
(* are sequences of statements.                                            *)

IntegerLiteral(n) == [kind |-> "IntegerLiteral", value |-> n]
BooleanLiteral(b) == [kind |-> "Boolean", value |-> b]
Identifier(x) == [kind |-> "Identifier", name |-> x]
PrefixExpression(o, r) == [kind |-> "PrefixExpression", op |-> o, right |-> r]
InfixExpression(o, l, r) ==
    [kind |-> "InfixExpression", op |-> o, left |-> l, right |-> r]
\* an if without an else has hasAlt = FALSE (and an empty alt)
IfExpression(c, cons) ==
    [kind |-> "IfExpression", cond |-> c, cons |-> cons, hasAlt |-> FALSE,
     alt |-> <<>>]
IfElseExpression(c, cons, a) ==
    [kind |-> "IfExpression", cond |-> c, cons |-> cons, hasAlt |-> TRUE,
     alt |-> a]
ExpressionStatement(e) == [kind |-> "ExpressionStatement", expr |-> e]
LetStatement(x, e) == [kind |-> "LetStatement", name |-> x, value |-> e]

-----------------------------------------------------------------------------
(* package compiler: the symbol table and the compiler.                    *)

\* NewSymbolTable
NewSymbolTable == [store |-> [x \in {} |-> 0], numDefinitions |-> 0]

\* SymbolTable.Define: a fresh index for a new name, the existing symbol for
\* a name defined before
Define(st, name) ==
    IF name \in DOMAIN st.store THEN st
    ELSE [store |-> [x \in (DOMAIN st.store) \cup {name} |->
                        IF x = name THEN st.numDefinitions ELSE st.store[x]],
          numDefinitions |-> st.numDefinitions + 1]

\* SymbolTable.Resolve
Resolves(st, name) == name \in DOMAIN st.store

\* the operand emitted for a forward jump until it is back-patched
Placeholder == 9999

NoInstruction == [opcode |-> 0, position |-> 0]

\* compiler.NewWithState; err is the error Compile returns
NewWithState(st, consts) ==
    [instructions |-> <<>>, constants |-> consts, symbolTable |-> st,
     lastInstruction |-> NoInstruction, previousInstruction |-> NoInstruction,
     err |-> NoErr]

\* compiler.New
NewCompiler == NewWithState(NewSymbolTable, <<>>)

\* Compiler.ByteCode
ByteCode(c) == [instructions |-> c.instructions, constants |-> c.constants]

\* Compiler.emit: append the instruction and shift the peephole record
emit(c, op, operand) ==
    [c EXCEPT !.instructions = @ \o Make(op, operand),
              !.previousInstruction = c.lastInstruction,
              !.lastInstruction = [opcode |-> op,
                                   position |-> Len(c.instructions)]]

\* Compiler.addConstant followed by emit(OpConstant, index)
emitConstant(c, obj) ==
    emit([c EXCEPT !.constants = Append(@, obj)], OpConstant,
         Len(c.constants))

\* Compiler.removeLastPop, applied when the last instruction is OpPop
removeLastPop(c) ==
    IF c.lastInstruction.opcode = OpPop
    THEN [c EXCEPT !.instructions =
                       SubSeq(@, 1, c.lastInstruction.position),
                   !.lastInstruction = c.previousInstruction]
    ELSE c

\* Back-patching: overwrite the operand of the instruction at opPos
changeOperand(c, opPos, operand) ==
    [c EXCEPT !.instructions =
        [i \in DOMAIN @ |->
            IF i = opPos + 2 THEN (operand \div 256) % 256
            ELSE IF i = opPos + 3 THEN operand % 256
            ELSE @[i]]]

InfixOpcode(op) ==
    CASE op = "+" -> OpAdd
      [] op = "-" -> OpSub
      [] op = "*" -> OpMul
      [] op = "/" -> OpDiv
      [] op = ">" -> OpGreaterThan
      [] op = "<" -> OpGreaterThan
      [] op = "==" -> OpEqual
      [] op = "!=" -> OpNotEqual
      [] OTHER -> -1

RECURSIVE CompileExpression(_, _)
RECURSIVE CompileStatements(_, _)

\* Compile of an ExpressionStatement or a LetStatement
CompileStatement(c, s) ==
    IF s.kind = "ExpressionStatement"
    THEN LET c1 == CompileExpression(c, s.expr)
         IN  IF c1.err # NoErr THEN c1 ELSE emit(c1, OpPop, 0)
    ELSE LET c1 == CompileExpression(c, s.value)
             st == Define(c1.symbolTable, s.name)
         IN  IF c1.err # NoErr THEN c1
             ELSE emit([c1 EXCEPT !.symbolTable = st], OpSetGlobal,
                       st.store[s.name])

\* Compile of a Program or a BlockStatement: each statement in order, up to
\* the first error
CompileStatements(c, stmts) ==
    IF stmts = <<>> \/ c.err # NoErr THEN c
    ELSE CompileStatements(CompileStatement(c, Head(stmts)), Tail(stmts))

\* Compile of an IfExpression, from the emission of OpJumpNotTruthy on
CompileIfBranches(c, e) ==
    LET jumpNotTruthyPos == Len(c.instructions)
        c1 == emit(c, OpJumpNotTruthy, Placeholder)
        c2 == CompileStatements(c1, e.cons)
        c3 == removeLastPop(c2)
        jumpPos == Len(c3.instructions)
        c4 == emit(c3, OpJump, Placeholder)
        c5 == changeOperand(c4, jumpNotTruthyPos, Len(c4.instructions))
        c6 == IF e.hasAlt THEN CompileStatements(c5, e.alt)
              ELSE emit(c5, OpNull, 0)
        c7 == IF e.hasAlt THEN removeLastPop(c6) ELSE c6
    IN  IF c2.err # NoErr THEN c2
        ELSE IF c6.err # NoErr THEN c6
        ELSE changeOperand(c7, jumpPos, Len(c7.instructions))

\* Compile of an expression node
CompileExpression(c, e) ==
    CASE e.kind = "IntegerLiteral" -> emitConstant(c, Integer(e.value))
      [] e.kind = "Boolean" ->
            emit(c, IF e.value THEN OpTrue ELSE OpFalse, 0)
      [] e.kind = "Identifier" ->
            IF Resolves(c.symbolTable, e.name)
            THEN emit(c, OpGetGlobal, c.symbolTable.store[e.name])
            ELSE [c EXCEPT !.err = <<"undefined variable", e.name>>]
      [] e.kind = "PrefixExpression" ->
            LET c1 == CompileExpression(c, e.right)
            IN  IF c1.err # NoErr THEN c1
                ELSE IF e.op = "!" THEN emit(c1, OpBang, 0)
                ELSE IF e.op = "-" THEN emit(c1, OpMinus, 0)
                ELSE [c1 EXCEPT !.err = <<"unknown operator", e.op>>]
      [] e.kind = "InfixExpression" ->
            LET first == IF e.op = "<" THEN e.right ELSE e.left
                second == IF e.op = "<" THEN e.left ELSE e.right
                c1 == CompileExpression(c, first)
                c2 == CompileExpression(c1, second)
            IN  IF c1.err # NoErr THEN c1
                ELSE IF c2.err # NoErr THEN c2
                ELSE IF InfixOpcode(e.op) = -1
                     THEN [c2 EXCEPT !.err = <<"unknown operator", e.op>>]
                ELSE emit(c2, InfixOpcode(e.op), 0)
      [] e.kind = "IfExpression" ->
            LET c1 == CompileExpression(c, e.cond)
            IN  IF c1.err # NoErr THEN c1 ELSE CompileIfBranches(c1, e)

\* Compiler.Compile(program)
Compile(c, prog) == CompileStatements(c, prog)

-----------------------------------------------------------------------------
(* The inputs: the identifiers and the programs the drivers are run on.    *)

Names == {"a", "b"}

I(n) == IntegerLiteral(n)
B(b) == BooleanLiteral(b)
Id(x) == Identifier(x)
ES(e) == ExpressionStatement(e)

IntLits == {I(0), I(2), I(7)}
BoolLits == {B(TRUE), B(FALSE)}
\* `if (false) { 1 }`: the expression whose value is null
NullExpr == IfExpression(B(FALSE), <<ES(I(1))>>)

\* integer literals and negated integer literals
Operands == IntLits \cup {PrefixExpression("-", x) : x \in IntLits}
ArithOps == {"+", "-", "*", "/"}
ArithExprs ==
    Operands
    \cup {InfixExpression(o, l, r) : o \in ArithOps, l \in Operands,
                                     r \in Operands}
    \cup {InfixExpression(o1, InfixExpression(o2, x, y), z) :
             o1 \in ArithOps, o2 \in ArithOps,
             x \in {I(7)}, y \in {I(2), I(7)}, z \in {I(2), I(7)}}
    \cup {InfixExpression(o1, x, InfixExpression(o2, y, z)) :
             o1 \in ArithOps, o2 \in ArithOps,
             x \in {I(7)}, y \in {I(2), I(7)}, z \in {I(2), I(7)}}
    \cup {PrefixExpression("-", InfixExpression(o, I(7), I(2))) :
             o \in ArithOps}

CmpOps == {"==", "!=", ">", "<"}
CmpOperands == IntLits \cup {B(TRUE), B(FALSE), NullExpr}
CmpExprs == {InfixExpression(o, l, r) : o \in CmpOps, l \in CmpOperands,
                                        r \in CmpOperands}

\* the operands of `!!x`
BangOperands == IntLits \cup BoolLits \cup {NullExpr} \cup CmpExprs
BangExprs ==
    {PrefixExpression("!", x) : x \in BangOperands}
    \cup {PrefixExpression("!", PrefixExpression("!", x)) :
             x \in BangOperands}
    \cup {PrefixExpression("-", x) : x \in BoolLits \cup {NullExpr}}

Conds == {B(TRUE), B(FALSE), I(0), I(7), NullExpr,
          InfixExpression("<", I(2), I(7)), InfixExpression(">", I(2), I(7)),
          InfixExpression("==", B(TRUE), B(TRUE))}
Blocks == {<<>>, <<ES(I(7))>>, <<LetStatement("a", I(2))>>,
           <<ES(I(2)), ES(I(7))>>,
           <<ES(IfExpression(B(TRUE), <<ES(I(2))>>))>>,
           <<ES(IfElseExpression(B(FALSE), <<ES(I(2))>>, <<ES(I(7))>>))>>}
IfExprs ==
    {IfExpression(c, b) : c \in Conds, b \in Blocks}
    \cup {IfElseExpression(c, b1, b2) : c \in Conds, b1 \in Blocks,
                                        b2 \in Blocks}
\* if expressions used as an operand
SmallIfExprs ==
    {IfExpression(c, b) : c \in {B(TRUE), B(FALSE)},
                          b \in {<<>>, <<ES(I(7))>>}}

\* 2 + (2 + (... + 2)): n additions, the operands pushed before any addition
RECURSIVE Nest(_)
Nest(n) == IF n = 0 THEN I(2) ELSE InfixExpression("+", I(2), Nest(n - 1))

LetPrograms ==
    {<<LetStatement("a", I(2)), ES(Id("a"))>>,
     <<LetStatement("a", I(2)), LetStatement("b", Id("a")), ES(Id("b"))>>,
     <<LetStatement("a", I(2)), LetStatement("b", I(7))>>,
     <<LetStatement("a", I(2)), LetStatement("a", I(7)), ES(Id("a"))>>,
     <<LetStatement("a", I(2)), ES(Id("b"))>>,
     <<ES(Id("a"))>>,
     <<ES(IfExpression(B(FALSE), <<LetStatement("a", I(7))>>)), ES(Id("a"))>>}

\* `if (c) { let a = 2; 2 } else { let b = 7; 7 }` and the same without the
\* else: which block ran shows in the result and in the name that was bound
BranchProgram(c) ==
    <<ES(IfElseExpression(c, <<LetStatement("a", I(2)), ES(I(2))>>,
                             <<LetStatement("b", I(7)), ES(I(7))>>))>>
NoElseProgram(c) ==
    <<ES(IfExpression(c, <<LetStatement("a", I(2)), ES(I(2))>>))>>

\* The programs the test driver is run on
Programs ==
    {<<ES(e)>> : e \in ArithExprs \cup CmpExprs \cup BangExprs \cup IfExprs}
    \cup {<<ES(e), ES(I(7))>> : e \in SmallIfExprs}
    \cup {<<LetStatement("b", e)>> : e \in SmallIfExprs}
    \cup {<<ES(InfixExpression("+", I(2), e))>> : e \in SmallIfExprs}
    \cup {<<ES(PrefixExpression("-", e))>> : e \in SmallIfExprs}
    \cup {<<ES(Nest(n))>> : n \in 1..StackSize}
    \cup {<<ES(I(2)), ES(I(7))>>, <<>>}
    \cup {BranchProgram(c) : c \in Conds}
    \cup {NoElseProgram(c) : c \in Conds}
    \cup LetPrograms

\* The lines the REPL is run on (each line that parses, as its program)
ReplLines ==
    {<<>>}
    \cup {<<ES(e)>> : e \in {I(7), B(TRUE), Id("a"), Id("b"), NullExpr,
                              PrefixExpression("!", Id("a")),
                              PrefixExpression("-", B(TRUE)),
                              InfixExpression("+", I(2), B(TRUE)),
                              InfixExpression("+", I(2), Id("b")),
                              InfixExpression("+", Id("a"), I(2)),
                              InfixExpression("+", I(2),
                                  PrefixExpression("-", B(TRUE))),
                              InfixExpression("==", Id("a"), Id("a")),
                              InfixExpression("==", Id("a"), B(TRUE)),
                              InfixExpression("==", I(2), I(2)),
                              IfExpression(Id("a"), <<ES(I(2))>>),
                              IfExpression(B(FALSE), <<ES(Id("b"))>>),
                              IfExpression(B(TRUE),
                                  <<LetStatement("a", I(7))>>),
                              IfExpression(B(FALSE),
                                  <<LetStatement("a", I(7))>>),
                              Nest(StackSize - 1), Nest(StackSize)}}
    \cup {<<LetStatement("a", e)>> :
             e \in {I(2), I(7), B(TRUE), Id("b"), NullExpr,
                    InfixExpression("==", I(2), I(2)),
                    InfixExpression("+", Id("a"), I(2)),
                    PrefixExpression("-", B(TRUE)),
                    IfExpression(B(TRUE), <<>>)}}
    \cup {<<LetStatement("b", e)>> : e \in {I(2), Id("a")}}
    \cup {<<LetStatement("a", I(2)), ES(Id("b"))>>,
          <<LetStatement("a", I(2)), ES(Id("a"))>>}

-----------------------------------------------------------------------------
(* The state shared by the drivers.                                        *)

\* the VM of the current line / test case, as the record the handlers take
Machine ==
    [constants |-> constants, instructions |-> instructions,
     globals |-> globals, stack |-> stack, sp |-> sp,
     err |-> NoErr, panicked |-> FALSE]

\* the opcode at ip (-1 when Run's loop has ended)
CurrentOp ==
    IF pc = "run" /\ ip < Len(instructions) THEN instructions[ip + 1] ELSE -1

NoneBound == [n \in Names |-> Unbound]

InitCommon ==
    /\ linesRead = 0
    /\ program = <<>>
    /\ symbolTable = NewSymbolTable
    /\ replConstants = <<>>
    /\ globals = NoGlobals
    /\ constants = <<>>
    /\ instructions = <<>>
    /\ stack = NewStack
    /\ sp = 0
    /\ ip = 0
    /\ compileErr = NoErr
    /\ runErr = NoErr
    /\ out = <<>>
    /\ result = nil
    /\ lastOp = -1
    /\ globals0 = NoGlobals
    /\ bound = NoneBound

\* the variables of the VM take the fields of a machine just constructed
Load(m) ==
    /\ constants' = m.constants
    /\ instructions' = m.instructions
    /\ globals' = m.globals
    /\ stack' = m.stack
    /\ sp' = m.sp
    /\ ip' = 0
    /\ runErr' = NoErr
    /\ lastOp' = -1

\* what was written to `out`
Written(kind, detail, obj) == [kind |-> kind, detail |-> detail, obj |-> obj]

-----------------------------------------------------------------------------
(* func (vm *VM) Run, an iteration of its loop at a time.                  *)

\* the history of the name(s) whose symbol has index i, after globals[i] = v
Bind(b, st, i, v) ==
    [n \in Names |-> IF n \in DOMAIN st.store /\ st.store[n] = i THEN v
                     ELSE b[n]]

RunStep ==
    /\ pc = "run"
    /\ ip < Len(instructions)
    /\ LET r == RunIteration(Machine, ip)
           opcode == instructions[ip + 1]
       IN  /\ stack' = r.m.stack
           /\ sp' = r.m.sp
           /\ globals' = r.m.globals
           /\ lastOp' = opcode
           /\ bound' = IF opcode = OpSetGlobal /\ ~r.m.panicked
                       THEN Bind(bound, symbolTable,
                                 ReadUint16(instructions, ip + 1),
                                 popped(Machine))
                       ELSE bound
           /\ IF r.m.panicked
              THEN pc' = "panic" /\ UNCHANGED <<ip, runErr>>
              ELSE IF r.m.err # NoErr
              THEN pc' = "ran" /\ runErr' = r.m.err /\ UNCHANGED ip
              ELSE pc' = "run" /\ ip' = r.ip /\ UNCHANGED runErr
    /\ UNCHANGED <<linesRead, program, symbolTable, replConstants, constants,
                   instructions, compileErr, out, result, globals0>>

\* the loop condition fails: Run returns nil
RunReturn ==
    /\ pc = "run"
    /\ ip >= Len(instructions)
    /\ pc' = "ran"
    /\ UNCHANGED <<linesRead, program, symbolTable, replConstants, globals,
                   constants, instructions, stack, sp, ip, compileErr,
                   runErr, out, result, lastOp, globals0, bound>>

-----------------------------------------------------------------------------
(* package repl: func Start.                                               *)

Init == pc = "prompt" /\ InitCommon

\* scanner.Scan() returns false: Start returns
ScanEOF ==
    /\ pc = "prompt"
    /\ pc' = "exit"
    /\ UNCHANGED <<linesRead, program, symbolTable, replConstants, globals,
                   constants, instructions, stack, sp, ip, compileErr,
                   runErr, out, result, lastOp, globals0, bound>>

\* func printParserErrors: the banner, then a line per error
ParserErrorLines(n) ==
    <<Written("banner", "Woops! We ran into some monkey business here!", nil),
      Written("banner", " parser errors:", nil)>>
    \o [i \in 1..n |-> Written("parser error", "msg", nil)]

\* the line does not parse: printParserErrors and continue
ScanParseErrors(n) ==
    /\ pc = "prompt"
    /\ linesRead < MaxLines
    /\ linesRead' = linesRead + 1
    /\ out' = ParserErrorLines(n)
    /\ compileErr' = NoErr
    /\ runErr' = NoErr
    /\ globals0' = globals
    /\ pc' = "prompt"
    /\ UNCHANGED <<program, symbolTable, replConstants, globals, constants,
                   instructions, stack, sp, ip, result, lastOp, bound>>

\* the line parses: NewWithState, Compile, the error written if any, and
\* NewWithGlobals on what ByteCode() returns, whether Compile failed or not
ReadLine(prog) ==
    /\ pc = "prompt"
    /\ linesRead < MaxLines
    /\ linesRead' = linesRead + 1
    /\ program' = prog
    /\ LET comp == Compile(NewWithState(symbolTable, replConstants), prog)
       IN  /\ symbolTable' = comp.symbolTable
           /\ compileErr' = comp.err
           /\ out' = IF comp.err # NoErr
                     THEN <<Written("error during compilation", comp.err,
                                    nil)>>
                     ELSE <<>>
           /\ Load(NewWithGlobals(ByteCode(comp), globals))
    /\ globals0' = globals
    /\ pc' = "run"
    /\ UNCHANGED <<replConstants, result, bound>>

\* after Run: the error written if any, then LastPopped().Inspect() and the
\* newline; Inspect on a nil object and stack[StackSize] panic
ReplPrint ==
    /\ pc = "ran"
    /\ LET out1 == IF runErr # NoErr
                   THEN Append(out, Written("error during execution", runErr,
                                            nil))
                   ELSE out
       IN  IF LastPoppedPanics(Machine) \/ LastPopped(Machine) = nil
           THEN /\ pc' = "panic"
                /\ out' = out1
                /\ UNCHANGED result
           ELSE /\ pc' = "prompt"
                /\ result' = LastPopped(Machine)
                /\ out' = out1 \o <<Written("inspect", <<>>,
                                            LastPopped(Machine)),
                                    Written("newline", <<>>, nil)>>
    /\ UNCHANGED <<linesRead, program, symbolTable, replConstants, globals,
                   constants, instructions, stack, sp, ip, compileErr,
                   runErr, lastOp, globals0, bound>>

Next ==
    \/ ScanEOF
    \/ \E n \in 1..MaxParseErrors : ScanParseErrors(n)
    \/ \E prog \in ReplLines : ReadLine(prog)
    \/ RunStep
    \/ RunReturn
    \/ ReplPrint

Spec == Init /\ [][Next]_vars

-----------------------------------------------------------------------------
(* package vm, func runVmTests: a test case at a time.                     *)

InitTest == pc = "test" /\ InitCommon

\* compiler.New(), Compile (t.Fatalf on an error), vm.New
TestCompile(prog) ==
    /\ pc = "test"
    /\ program' = prog
    /\ LET comp == Compile(NewCompiler, prog)
       IN  /\ compileErr' = comp.err
           /\ symbolTable' = comp.symbolTable
           /\ IF comp.err # NoErr
              THEN /\ pc' = "fatal"
                   /\ UNCHANGED <<globals, constants, instructions, stack, sp,
                                  ip, runErr, lastOp>>
              ELSE /\ pc' = "run"
                   /\ Load(New(ByteCode(comp)))
    /\ UNCHANGED <<linesRead, replConstants, out, result, globals0, bound>>

\* after Run: t.Fatalf on an error, else elem := vm.LastPopped()
TestLastPopped ==
    /\ pc = "ran"
    /\ IF runErr # NoErr THEN pc' = "fatal" /\ UNCHANGED result
       ELSE IF LastPoppedPanics(Machine) THEN pc' = "panic" /\ UNCHANGED result
       ELSE pc' = "done" /\ result' = LastPopped(Machine)
    /\ UNCHANGED <<linesRead, program, symbolTable, replConstants, globals,
                   constants, instructions, stack, sp, ip, compileErr,
                   runErr, out, lastOp, globals0, bound>>

\* the next test case starts from a new compiler and a new VM
TestNextCase ==
    /\ pc = "done"
    /\ pc' = "test"
    /\ linesRead' = 0
    /\ program' = <<>>
    /\ symbolTable' = NewSymbolTable
    /\ replConstants' = <<>>
    /\ Load(New([instructions |-> <<>>, constants |-> <<>>]))
    /\ compileErr' = NoErr
    /\ out' = <<>>
    /\ result' = nil
    /\ globals0' = NoGlobals
    /\ bound' = NoneBound

NextTest ==
    \/ \E prog \in Programs : TestCompile(prog)
    \/ RunStep
    \/ RunReturn
    \/ TestLastPopped
    \/ TestNextCase

SpecTest == InitTest /\ [][NextTest]_vars

-----------------------------------------------------------------------------
(* The language's values, as the specification gives them: the reference   *)
(* the claims compare the machine with.                                    *)

\* truncating signed division, stated by its defining property
Quotient(a, b) ==
    CHOOSE q \in (-Abs(a))..Abs(a) :
        \E r \in (-Abs(b))..Abs(b) :
            /\ a = q * b + r
            /\ Abs(r) < Abs(b)
            /\ (r = 0 \/ (r < 0) = (a < 0))

\* the integer an arithmetic expression denotes
RECURSIVE ArithValue(_)
ArithValue(e) ==
    CASE e.kind = "IntegerLiteral" -> e.value
      [] e.kind = "PrefixExpression" -> 0 - ArithValue(e.right)
      [] e.kind = "InfixExpression" ->
            LET l == ArithValue(e.left)
                r == ArithValue(e.right)
            IN  CASE e.op = "+" -> l + r
                  [] e.op = "-" -> l - r
                  [] e.op = "*" -> l * r
                  [] e.op = "/" -> Quotient(l, r)

\* the value of an operand of `!!x`: an integer, true, false or null, with
\* true, false and null the canonical singletons
OperandValue(e) ==
    LET atom(x) == CASE x.kind = "IntegerLiteral" -> Integer(x.value)
                     [] x.kind = "Boolean" ->
                           IF x.value THEN True ELSE False
                     [] x.kind = "IfExpression" -> Null
        bool(b) == IF b THEN True ELSE False
    IN  IF e.kind # "InfixExpression" THEN atom(e)
        ELSE LET l == atom(e.left)
                 r == atom(e.right)
             IN  CASE e.op = "==" -> bool(l = r)
                   [] e.op = "!=" -> bool(l # r)
                   [] e.op = ">" -> bool(l.ival > r.ival)
                   [] e.op = "<" -> bool(l.ival < r.ival)

\* truthiness: false and null are not truthy, everything else is
Truthy(v) == v # False /\ v # Null

\* the offsets at which an instruction of the stream starts
RECURSIVE StartsFrom(_, _)
StartsFrom(ins, i) ==
    IF i >= Len(ins) THEN {}
    ELSE {i} \cup StartsFrom(ins, i + 1 + operandWidth(ins[i + 1]))
InstructionStarts(ins) == StartsFrom(ins, 0)

IsJump(op) == op = OpJump \/ op = OpJumpNotTruthy

\* the last statement of the program is an expression statement
EndsInExpression ==
    /\ Len(program) >= 1
    /\ program[Len(program)].kind = "ExpressionStatement"
LastExpression == program[Len(program)].expr

\* the program is a single expression statement of an if expression
IsIfStatement ==
    /\ Len(program) = 1
    /\ program[1].kind = "ExpressionStatement"
    /\ program[1].expr.kind = "IfExpression"

-----------------------------------------------------------------------------
(* The claims.                                                             *)

Canonical(v) ==
    v.type \in {BOOLEAN_OBJ, NULL_OBJ} => v \in {True, False, Null}

\* C1: every Boolean or Null on the operand stack or in the globals array is
\* one of the singletons True, False, Null; the comparison opcodes and OpBang
\* push the canonical True or False.
C1_OnlyCanonicalSingletons ==
    /\ \A i \in 1..sp : Canonical(stack[i])
    /\ \A i \in DOMAIN globals : Canonical(globals[i])

\* C2: for every operand x that evaluates without error, `!!x` leaves the
\* boolean that is the truthiness of x.
C2_DoubleBangIsTruthiness ==
    \A x \in BangOperands :
        (pc = "done"
         /\ program = <<ES(PrefixExpression("!", PrefixExpression("!", x)))>>)
        => (result.type = BOOLEAN_OBJ
            /\ result.bval = Truthy(OperandValue(x)))

\* C3, as stated: for every well-formed program Run ends with ip at the end
\* of the instruction stream, without an error, and with sp zero.
C3_RunAlwaysEndsBalanced ==
    pc = "ran" => (runErr = NoErr /\ ip = Len(instructions) /\ sp = 0)

\* C3, amended: whenever Run returns without an error, ip is at the end of
\* the instruction stream and sp is zero.
C3_BalancedWhenRunSucceeds ==
    (pc = "ran" /\ runErr = NoErr) => (ip = Len(instructions) /\ sp = 0)

\* a run of two statements, the first an if expression, that ended balanced
C3_Witness ==
    /\ pc = "ran"
    /\ runErr = NoErr
    /\ Len(program) = 2
    /\ program[1].kind = "ExpressionStatement"
    /\ program[1].expr.kind = "IfExpression"
    /\ lastOp = OpPop
    /\ sp = 0

\* C4: the bytecode of an if expression, whatever its blocks hold and
\* whichever branch runs, raises sp by exactly one: when the program is the
\* statement `if ...;`, sp is 1 when Run arrives at the statement's OpPop.
C4_IfLeavesOneValue ==
    (IsIfStatement /\ pc = "run" /\ ip = Len(instructions) - 1) => sp = 1

ErrorWritten(w) ==
    w.kind \in {"error during compilation", "error during execution"}

\* C5: a line whose compilation fails or whose execution returns an error
\* makes the REPL write exactly one error line and arrive at the next
\* prompt, without crashing.
C5_ErrorLineThenPrompt ==
    (compileErr # NoErr \/ runErr # NoErr)
    => /\ pc # "panic"
       /\ pc = "prompt" =>
             /\ Len(out) = 2
             /\ ErrorWritten(out[1])
             /\ out[2].kind = "newline"

\* C6: when the compilation of a line fails, no instruction of the line is
\* executed, the globals array is as it was when the line was read, and no
\* result value is written for the line.
C6_FailedCompileIsDiscarded ==
    compileErr # NoErr
    => /\ lastOp = -1
       /\ globals = globals0
       /\ \A i \in 1..Len(out) : out[i].kind # "inspect"

\* C7: a name a let bound stays resolvable on every later line, its slot
\* holds the value most recently assigned to it, and reading it pushes that
\* value.
C7_BoundNamesPersist ==
    \A n \in Names :
        bound[n] # Unbound
        => /\ Resolves(symbolTable, n)
           /\ compileErr # <<"undefined variable", n>>
           /\ GetSlot(globals, symbolTable.store[n]) = bound[n]
           /\ (pc = "run" /\ lastOp = OpGetGlobal
               /\ ReadUint16(instructions, ip - 2) = symbolTable.store[n])
              => stack[sp] = bound[n]

\* on the second line, a read of `a` pushed the value an earlier line bound
C7_Witness ==
    /\ linesRead = 2
    /\ pc = "run"
    /\ lastOp = OpGetGlobal
    /\ Resolves(symbolTable, "a")
    /\ ReadUint16(instructions, ip - 2) = symbolTable.store["a"]
    /\ bound["a"] = Integer(7)
    /\ GetSlot(globals0, symbolTable.store["a"]) = Integer(7)
    /\ stack[sp] = Integer(7)

\* C8: after Compile and Run of a program whose last statement is an
\* arithmetic expression over integer literals, LastPopped() is the Integer
\* that the expression denotes under truncating signed arithmetic.
C8_ArithmeticResult ==
    (pc = "done" /\ EndsInExpression /\ LastExpression \in ArithExprs)
    => result = Integer(ArithValue(LastExpression))

\* -7 / 2 ran and left -3
C8_Witness ==
    /\ pc = "done"
    /\ program = <<ES(InfixExpression("/", PrefixExpression("-", I(7)),
                                      I(2)))>>
    /\ result = Integer(-3)

\* C9: in the bytecode of a program that compiled, the operand of every
\* OpJump and OpJumpNotTruthy is the offset of the first byte of an
\* instruction of the stream, and none is the placeholder.
C9_JumpTargetsAreInstructionStarts ==
    compileErr = NoErr
    => \A p \in InstructionStarts(instructions) :
          IsJump(instructions[p + 1])
          => /\ ReadUint16(instructions, p + 1)
                    \in InstructionStarts(instructions)
             /\ ReadUint16(instructions, p + 1) # Placeholder

\* a nested if: the jump of the inner if lands on the jump of the outer one,
\* the instruction emitted where the removed OpPop was
C9_Witness ==
    /\ pc = "run"
    /\ compileErr = NoErr
    /\ \E p \in InstructionStarts(instructions) :
          /\ instructions[p + 1] = OpJump
          /\ ReadUint16(instructions, p + 1) < Len(instructions)
          /\ instructions[ReadUint16(instructions, p + 1) + 1] = OpJump

PushesOnly(op) == op \in {OpConstant, OpTrue, OpFalse, OpNull, OpGetGlobal}

\* C10: sp is always between 0 and StackSize, and a push attempted at
\* sp = StackSize makes Run return `stack overflow` with sp and the stack
\* as they were.
C10_StackBounded ==
    /\ [](0 <= sp /\ sp <= StackSize)
    /\ [][(pc = "run" /\ sp = StackSize /\ PushesOnly(CurrentOp))
          => (pc' = "ran" /\ runErr' = <<"stack overflow">>
              /\ sp' = sp /\ stack' = stack)]_vars

\* Run returned `stack overflow` with the stack full
C10_Witness ==
    /\ pc = "ran"
    /\ runErr = <<"stack overflow">>
    /\ sp = StackSize
    /\ lastOp = OpConstant

\* the opcodes whose operands must be integers
IntegerOnly(op) == op \in {OpAdd, OpSub, OpMul, OpDiv, OpGreaterThan, OpMinus}

\* the object(s) the handler of the opcode at ip takes from the stack
OperandsTaken ==
    IF CurrentOp = OpMinus THEN {popped(Machine)}
    ELSE {popped(Machine), popped(pop(Machine))}

\* C11: when OpAdd, OpSub, OpMul, OpDiv, OpGreaterThan or OpMinus takes an
\* operand that is not an Integer (a Boolean, Null or an absent value), Run
\* returns an `unsupported type(s)` error and pushes nothing; it does not
\* abort without returning an error.
C11_NonIntegerOperandIsAnError ==
    [][(/\ pc = "run"
        /\ IntegerOnly(CurrentOp)
        /\ \E v \in OperandsTaken : v.type # INTEGER_OBJ)
       => (/\ pc' = "ran"
           /\ runErr' # NoErr
           /\ runErr'[1] \in {"unsupported types for binary operation",
                              "unsupported type for negation by minus"}
           /\ sp' <= sp
           /\ stack' = stack)]_vars

\* C12: the constant pool is persistent across the lines of the REPL: the
\* pool Start hands to the compiler of the next line holds, at the same
\* indices, every constant of the pool the latest compiled line ended with
\* (the pool it was handed and the constants it added).
C12_ConstantPoolPersists ==
    pc = "prompt"
    => /\ Len(replConstants) >= Len(constants)
       /\ \A i \in 1..Len(constants) : replConstants[i] = constants[i]

\* the program `x o y;` has been compiled and Run has not failed
Compiled(o, x, y) ==
    /\ program = <<ES(InfixExpression(o, x, y))>>
    /\ pc \in {"run", "ran", "done"}

\* the bytecode of a comparison of two integer literals
TwoConstantsCompared ==
    Make(OpConstant, 0) \o Make(OpConstant, 1) \o Make(OpGreaterThan, 0)
    \o Make(OpPop, 0)

\* C13: for integer literals a and b, `a < b` is compiled as b, a,
\* OpGreaterThan with the constants [b, a], and running it leaves the boolean
\* that is true exactly when a is less than b; `a > b` is compiled as a, b,
\* OpGreaterThan with the constants [a, b] and leaves true exactly when a is
\* greater than b.  Neither fails.
C13_LessThanIsSwappedGreaterThan ==
    \A x \in IntLits, y \in IntLits :
        /\ program \in {<<ES(InfixExpression("<", x, y))>>,
                        <<ES(InfixExpression(">", x, y))>>}
           => pc \notin {"fatal", "panic"}
        /\ Compiled("<", x, y)
           => /\ constants = <<Integer(y.value), Integer(x.value)>>
              /\ instructions = TwoConstantsCompared
              /\ pc = "done" => /\ result.type = BOOLEAN_OBJ
                                /\ result.bval = (x.value < y.value)
        /\ Compiled(">", x, y)
           => /\ constants = <<Integer(x.value), Integer(y.value)>>
              /\ instructions = TwoConstantsCompared
              /\ pc = "done" => /\ result.type = BOOLEAN_OBJ
                                /\ result.bval = (x.value > y.value)

\* `2 < 7` ran with the constants [7, 2] and left true
C13_Witness ==
    /\ pc = "done"
    /\ program = <<ES(InfixExpression("<", I(2), I(7)))>>
    /\ constants = <<Integer(7), Integer(2)>>
    /\ result.type = BOOLEAN_OBJ
    /\ result.bval = TRUE

\* the number of values the handler of an opcode removes from the stack
Removes(op) ==
    IF op \in {OpPop, OpSetGlobal, OpJumpNotTruthy, OpBang, OpMinus} THEN 1
    ELSE IF op \in {OpAdd, OpSub, OpMul, OpDiv, OpEqual, OpNotEqual,
                    OpGreaterThan} THEN 2
    ELSE 0

\* C14: in the run of a program that compiled, whenever an opcode that
\* removes values from the stack is about to execute, sp is at least the
\* number of values it removes: nothing is popped from an empty stack.
C14_NoPopFromEmptyStack ==
    (pc = "run" /\ compileErr = NoErr) => sp >= Removes(CurrentOp)

\* C15: in `if (c) { A } else { B }` the consequence is executed and the
\* alternative skipped exactly when the value of c is neither false nor null
\* (0 and every other integer, and true, select the consequence); otherwise
\* the alternative is executed, or Null is pushed when there is none, and the
\* consequence skipped.  This holds when c is the result of a comparison.
C15_IfSelectsByTruthiness ==
    \A c \in Conds :
        /\ program \in {BranchProgram(c), NoElseProgram(c)}
           => pc \notin {"fatal", "panic"}
        /\ (program = BranchProgram(c) /\ pc = "done")
           => IF Truthy(OperandValue(c))
              THEN /\ result = Integer(2)
                   /\ bound["a"] = Integer(2)
                   /\ bound["b"] = Unbound
              ELSE /\ result = Integer(7)
                   /\ bound["b"] = Integer(7)
                   /\ bound["a"] = Unbound
        /\ (program = NoElseProgram(c) /\ pc = "done")
           => IF Truthy(OperandValue(c))
              THEN result = Integer(2) /\ bound["a"] = Integer(2)
              ELSE result = Null /\ bound["a"] = Unbound

\* `if (0) { let a = 2; 2 } else { let b = 7; 7 }` ran its consequence only
C15_Witness ==
    /\ pc = "done"
    /\ program = BranchProgram(I(0))
    /\ result = Integer(2)
    /\ bound["a"] = Integer(2)
    /\ bound["b"] = Unbound

\* two operands are equal: integers of equal value, or the same singleton
EqualOperands(l, r) ==
    LET a == OperandValue(l)
        b == OperandValue(r)
    IN  \/ a.type = INTEGER_OBJ /\ b.type = INTEGER_OBJ /\ a.ival = b.ival
        \/ a.type # INTEGER_OBJ /\ b.type = a.type /\ b.ref = a.ref

\* C16: for operands pushed by OpConstant, OpTrue, OpFalse or OpNull, OpEqual
\* leaves a true boolean exactly when both are integers of equal value or
\* both are the same singleton, and a false boolean otherwise, an integer
\* with a non-integer included, without an error; OpNotEqual leaves the
\* negation.
C16_EqualityOfDirectOperands ==
    \A l \in CmpOperands, r \in CmpOperands :
        /\ program \in {<<ES(InfixExpression("==", l, r))>>,
                        <<ES(InfixExpression("!=", l, r))>>}
           => /\ pc \notin {"fatal", "panic"}
              /\ runErr = NoErr
              /\ pc = "done" => result.type = BOOLEAN_OBJ
        /\ (program = <<ES(InfixExpression("==", l, r))>> /\ pc = "done")
           => result.bval = EqualOperands(l, r)
        /\ (program = <<ES(InfixExpression("!=", l, r))>> /\ pc = "done")
           => result.bval = ~EqualOperands(l, r)

\* `true != false` ran without an error and left a true boolean
C16_Witness ==
    /\ pc = "done"
    /\ program = <<ES(InfixExpression("!=", B(TRUE), B(FALSE)))>>
    /\ runErr = NoErr
    /\ result.type = BOOLEAN_OBJ
    /\ result.bval = TRUE

\* C17: OpGetGlobal never pushes an unset slot: after an OpGetGlobal that
\* pushed, the top of the stack is a present value, the one the latest
\* executed OpSetGlobal of that name stored.
C17_GetGlobalPushesASetSlot ==
    (pc = "run" /\ lastOp = OpGetGlobal)
    => /\ stack[sp] # nil
       /\ \A n \in Names :
             (Resolves(symbolTable, n)
              /\ symbolTable.store[n] = ReadUint16(instructions, ip - 2))
             => stack[sp] = bound[n]

\* C18: when a line has compiled and Run has returned without an error,
\* LastPopped() reads inside the stack and returns a present value (an
\* Integer, a Boolean or Null), so that Start's call of Inspect on it does
\* not act on an absent value; the REPL does not crash on such a line.
C18_LastPoppedIsPresent ==
    /\ (pc = "ran" /\ compileErr = NoErr /\ runErr = NoErr)
       => /\ ~LastPoppedPanics(Machine)
          /\ LastPopped(Machine).type
                 \in {INTEGER_OBJ, BOOLEAN_OBJ, NULL_OBJ}
    /\ (pc = "panic" /\ compileErr = NoErr /\ runErr = NoErr)
       => ip < Len(instructions)

====
